---- MODULE Spec2Model ----
(***************************************************************************)
(* State-machine model of newscrapy: run.py (run, choose_extractor),       *)
(* extractor.py (LaRepubblicaExtractor.archive_size / extract_articles,    *)
(* Extractor.articles_to_csv), article.py (Article / LaRepubblicaArticle)  *)
(* and utility.py (datespan).                                              *)
(*                                                                         *)
(* Python strings are sequences of one-character strings, so that slicing  *)
(* (url[:-10], href[-16:], text[5:]) and len() are computed.  An optional  *)
(* value (a node that find() may not find) is a sequence of length 0       *)
(* (None) or 1 (the node).                                                 *)
(***************************************************************************)
EXTENDS Integers, Sequences, FiniteSets, TLC

VARIABLES
    caller,        \* "run" (run.py) or "api" (a client holding one extractor)
    argv,          \* run.py: sys.argv as a record
    pc,            \* position of the single thread of control
    exc,           \* "none" or the name of the exception that propagated
    args,          \* parameters of the top-level extract_articles call
    calls,         \* number of top-level extract_articles calls made
    articles,      \* Extractor.articles
    csv,           \* what articles_to_csv wrote: None or <<rows>>
    current_date,  \* datespan: current_date
    end_date,      \* datespan: end_date
    day,           \* day-mode frame: [date, pages, i]
    page,          \* page-mode frame: [date, page_num, articles_html, idx]
    article,       \* the article object under construction
    preview_soup,  \* the preview node handed to parse
    parses,        \* number of times parse ran on `article`
    first,         \* the article's fields after the first parse
    log            \* history of the current top-level call (observation only)

vars == <<caller, argv, pc, exc, args, calls, articles, csv, current_date,
          end_date, day, page, article, preview_soup, parses, first, log>>

-----------------------------------------------------------------------------
(* Bounds of the model *)
MaxSpan == 2
MaxPages == 2
MaxEntries == 2
MaxCalls == 2
MaxArticles == 2
MaxParses == 2

-----------------------------------------------------------------------------
(* Python values *)
None == <<>>
Some(x) == <<x>>
IsNone(o) == o = <<>>
Get(o) == o[1]

\* s[n:]
DropFirst(s, n) == IF n >= Len(s) THEN <<>> ELSE SubSeq(s, n + 1, Len(s))
\* s[-n:]
LastN(s, n) == IF n >= Len(s) THEN s ELSE SubSeq(s, Len(s) - n + 1, Len(s))
\* s[:-n]
DropLast(s, n) == IF n >= Len(s) THEN <<>> ELSE SubSeq(s, 1, Len(s) - n)

IsPrefix(s, t) == Len(s) <= Len(t) /\ SubSeq(t, 1, Len(s)) = s

-----------------------------------------------------------------------------
(* String constants of the program *)
SearchSuffixLen == 16
SearchSuffix == <<".","h","t","m","l","?","r","e","f","=","s","e","a","r","c","h">>
CatalogUrl == <<"h","t","t","p","s",":","/","/","q","u","o","t","i","d","i","a","n","o",".","r","e","p","u","b","b","l","i","c","a",".","i","t","/","e","d","i","c","o","l","a","/","c","a","t","a","l","o","g","o","g","e","n","e","r","a","l","e",".","j","s","p","?","r","e","f","=","s","e","a","r","c","h">>
Cruciverba == <<"I","l"," ","C","r","u","c","i","v","e","r","b","a">>
LabelPrefixLen == 5
MinPreviewLen == 5
UrlQueryLen == 10

-----------------------------------------------------------------------------
(* datetime.date and timedelta(days=1), as extractor.py and datespan use them *)
Date(y, m, d) == [year |-> y, month |-> m, day |-> d]

IsLeap(y) == (y % 4 = 0 /\ y % 100 # 0) \/ y % 400 = 0

DaysInMonth(y, m) ==
    IF m = 2 THEN (IF IsLeap(y) THEN 29 ELSE 28)
    ELSE IF m \in {4, 6, 9, 11} THEN 30 ELSE 31

\* current_date += delta, delta = timedelta(days=1)
AddDay(dt) ==
    IF dt.day < DaysInMonth(dt.year, dt.month)
    THEN Date(dt.year, dt.month, dt.day + 1)
    ELSE IF dt.month < 12 THEN Date(dt.year, dt.month + 1, 1)
    ELSE Date(dt.year + 1, 1, 1)

\* a < b on dates
DateLT(a, b) ==
    \/ a.year < b.year
    \/ a.year = b.year /\ a.month < b.month
    \/ a.year = b.year /\ a.month = b.month /\ a.day < b.day

DateLE(a, b) == a = b \/ DateLT(a, b)

\* (variant: the end date is yielded too)
DatespanTest_Inclusive(cur, end) == DateLE(cur, end)

\* datespan: while current_date < end_date
DatespanTest(cur, end) == DateLT(cur, end)

\* The dates the callers of the model pass: MaxSpan + 1 consecutive days
\* across the end of February of a leap year.
FirstDate == Date(2016, 2, 28)

RECURSIVE DaysFrom(_, _)
DaysFrom(dt, n) == IF n = 0 THEN {dt} ELSE {dt} \cup DaysFrom(AddDay(dt), n - 1)

Dates == DaysFrom(FirstDate, MaxSpan)

-----------------------------------------------------------------------------
(* archive_size: the pagination text and re.findall(r'\d+', text)[-1] *)
Digit == <<"0","1","2","3","4","5","6","7","8","9">>
IsDigit(c) == \E k \in 1..10 : Digit[k] = c
DigitValue(c) == (CHOOSE k \in 1..10 : Digit[k] = c) - 1

\* str(n)
RECURSIVE IntToStr(_)
IntToStr(n) == IF n < 10 THEN <<Digit[n + 1]>>
               ELSE IntToStr(n \div 10) \o <<Digit[(n % 10) + 1]>>

\* int(s) for a string of digits
RECURSIVE StrToInt(_)
StrToInt(s) == IF s = <<>> THEN 0
               ELSE 10 * StrToInt(SubSeq(s, 1, Len(s) - 1)) + DigitValue(s[Len(s)])

\* re.findall(r'\d+', text): the maximal runs of digits, left to right
RECURSIVE FindAllNumbers(_, _, _)
FindAllNumbers(text, k, run) ==
    IF k > Len(text) THEN (IF run = <<>> THEN <<>> ELSE <<run>>)
    ELSE IF IsDigit(text[k]) THEN FindAllNumbers(text, k + 1, Append(run, text[k]))
    ELSE (IF run = <<>> THEN <<>> ELSE <<run>>) \o FindAllNumbers(text, k + 1, <<>>)

findall(text) == FindAllNumbers(text, 1, <<>>)

\* What the first listing page of a date can look like to archive_size:
\* soup.find('div', {"class": "pagination"}) and its <p>.
PaginationPrefix == <<"P","a","g","i","n","a"," ","1"," ","d","i"," ">>
NoDigits == <<"P","a","g","i","n","a">>

SizeDocs ==
    {[pagination |-> None]}
      \cup {[pagination |-> Some([p |-> None])]}
      \cup {[pagination |-> Some([p |-> Some(NoDigits)])]}
      \cup {[pagination |-> Some([p |-> Some(PaginationPrefix \o IntToStr(n))])] :
               n \in 0..MaxPages}

\* the first listing pages of the client specification: one page, or no
\* pagination
ApiSizeDocs ==
    {[pagination |-> None],
     [pagination |-> Some([p |-> Some(PaginationPrefix \o IntToStr(1))])]}

\* archive_size on the fetched data: [raised, value]
archive_size_of(data) ==
    IF IsNone(data) THEN [raised |-> FALSE, value |-> -1]
    ELSE LET pagination == Get(data).pagination IN
         IF IsNone(pagination) \/ IsNone(Get(pagination).p)
         THEN [raised |-> TRUE, value |-> 0]           \* AttributeError
         ELSE LET found == findall(Get(Get(pagination).p)) IN
              IF found = <<>>
              THEN [raised |-> TRUE, value |-> 0]      \* IndexError
              ELSE [raised |-> FALSE, value |-> StrToInt(found[Len(found)])]

-----------------------------------------------------------------------------
(* article.py: Article.__init__, LaRepubblicaArticle.__init__, download,    *)
(* parse and as_dict.  A result is [raised, art]: raised means that an     *)
(* ArticleException left the method.                                       *)

\* Article.__init__: the fields after the url check
BlankArticle(url) ==
    [url |-> url, title |-> <<>>, description |-> <<>>, authors |-> <<>>,
     publish_date |-> <<>>, text |-> <<>>, section |-> <<>>,
     subsection |-> <<>>, keywords |-> <<>>, characters |-> <<>>,
     image_url |-> <<>>, html |-> None]

\* The object before any constructor ran (no article under construction)
NoArticle == BlankArticle(<<>>)

\* self.url = url[:-10]
StripQuery(url) == DropLast(url, UrlQueryLen)

\* LaRepubblicaArticle(url): url is the href, None when the attribute is read
\* from a link that has it; Article.__init__ rejects None and ''
NewArticle(url) ==
    IF IsNone(url) \/ Get(url) = <<>>
    THEN [raised |-> TRUE, art |-> NoArticle]
    ELSE [raised |-> FALSE,
          art |-> [BlankArticle(Get(url)) EXCEPT !.url = StripQuery(Get(url))]]

\* Article.download on what get_page_html returned: None, or Some(data)
\* where data is None for an empty body and Some(soup) for a page with
\* markup.  data is request.data, a bytes object, which is never equal to
\* the str '': an empty body passes the test and is stored.
download(art, fetched) ==
    IF IsNone(fetched)
    THEN [raised |-> TRUE, art |-> art]
    ELSE [raised |-> FALSE, art |-> [art EXCEPT !.html = Get(fetched)]]

\* BeautifulSoup(''): a tree in which no find() finds anything
EmptySoup ==
    [article |-> None, description |-> None, authors |-> None, time |-> None,
     articleBody |-> None, detail_body |-> None, body_text |-> None,
     section_logo |-> None, sport_logo |-> None, args |-> None,
     detail_tag |-> None, character |-> None, figure |-> None]

SoupOf(html) == IF IsNone(html) THEN EmptySoup ELSE Get(html)

Raise(s) == [s EXCEPT !.raised = TRUE]

\* self.title = soup.article.h1.text
ParseTitle(s, soup) ==
    IF IsNone(soup.article) \/ IsNone(Get(soup.article).h1) THEN Raise(s)
    ELSE [s EXCEPT !.art.title = Get(Get(soup.article).h1)]

\* description: only the page's own marker is stored; the preview's <p> is
\* bound to a local name and dropped
ParseDescription(s, soup, pv) ==
    IF ~IsNone(soup.description)
    THEN [s EXCEPT !.art.description = Get(soup.description)]
    ELSE s

\* authors: as description
ParseAuthors(s, soup, pv) ==
    IF ~IsNone(soup.authors)
    THEN [s EXCEPT !.art.authors = Get(soup.authors)]
    ELSE s

\* publish_date: the preview's <time> when a preview is given, else the page's
ParseDate(s, soup, pv) ==
    IF ~IsNone(pv)
    THEN (IF IsNone(Get(pv).time) THEN Raise(s)
          ELSE [s EXCEPT !.art.publish_date = Get(Get(pv).time)])
    ELSE (IF IsNone(soup.time) THEN Raise(s)
          ELSE [s EXCEPT !.art.publish_date = Get(soup.time)])

\* text: articleBody, else detail_body, else body-text/content/p
ParseText(s, soup) ==
    IF ~IsNone(soup.articleBody)
    THEN [s EXCEPT !.art.text = Get(soup.articleBody)]
    ELSE IF ~IsNone(soup.detail_body)
    THEN [s EXCEPT !.art.text = Get(soup.detail_body)]
    ELSE IF IsNone(soup.body_text) \/ IsNone(Get(soup.body_text).content)
    THEN Raise(s)
    ELSE LET article_body == Get(Get(soup.body_text).content).p IN
         IF ~IsNone(article_body)
         THEN [s EXCEPT !.art.text = Get(article_body)]
         ELSE s

\* section: section-logo, else sport-logo
ParseSection(s, soup) ==
    IF ~IsNone(soup.section_logo)
    THEN [s EXCEPT !.art.section = Get(soup.section_logo)]
    ELSE IF ~IsNone(soup.sport_logo)
    THEN [s EXCEPT !.art.section = Get(soup.sport_logo)]
    ELSE s

\* subsection: preview_soup.span.text[5:]
ParseSubsection(s, pv) ==
    IF IsNone(pv) THEN s
    ELSE IF IsNone(Get(pv).span) THEN Raise(s)
    ELSE [s EXCEPT !.art.subsection = DropFirst(Get(Get(pv).span), LabelPrefixLen)]

\* for keyword in found: self.keywords.append(keyword.text)
AppendAll(list, found) == list \o found

\* keywords: dl.args' <dd>s, else div.detail_tag's <a>s
ParseKeywords(s, soup) ==
    IF IsNone(soup.args)
    THEN (IF ~IsNone(soup.detail_tag)
          THEN [s EXCEPT !.art.keywords = AppendAll(@, Get(soup.detail_tag))]
          ELSE s)
    ELSE [s EXCEPT !.art.keywords = AppendAll(@, Get(soup.args))]

\* characters: dl.character's <dd>s
ParseCharacters(s, soup) ==
    IF ~IsNone(soup.character)
    THEN [s EXCEPT !.art.characters = AppendAll(@, Get(soup.character))]
    ELSE s

\* image_url: soup.figure.img['src']
ParseImage(s, soup) ==
    IF ~IsNone(soup.figure) /\ ~IsNone(Get(soup.figure).img)
    THEN (IF IsNone(Get(Get(soup.figure).img).src) THEN Raise(s)   \* KeyError
          ELSE [s EXCEPT !.art.image_url = Get(Get(Get(soup.figure).img).src)])
    ELSE s

\* One statement group of parse, skipped once an exception was raised
Then(s, t) == IF s.raised THEN s ELSE t

\* LaRepubblicaArticle.parse(preview_soup): pv is None for preview_soup == ''
parse(art, pv) ==
    LET soup == SoupOf(art.html)
        s0 == [raised |-> FALSE, art |-> art]
        s1 == ParseTitle(s0, soup)
        s2 == Then(s1, ParseDescription(s1, soup, pv))
        s3 == Then(s2, ParseAuthors(s2, soup, pv))
        s4 == Then(s3, ParseDate(s3, soup, pv))
        s5 == Then(s4, ParseText(s4, soup))
        s6 == Then(s5, ParseSection(s5, soup))
        s7 == Then(s6, ParseSubsection(s6, pv))
        s8 == Then(s7, ParseKeywords(s7, soup))
        s9 == Then(s8, ParseCharacters(s8, soup))
    IN  Then(s9, ParseImage(s9, soup))

\* as_dict: every attribute but html
as_dict(art) ==
    [url |-> art.url, title |-> art.title, description |-> art.description,
     authors |-> art.authors, publish_date |-> art.publish_date,
     text |-> art.text, section |-> art.section, subsection |-> art.subsection,
     keywords |-> art.keywords, characters |-> art.characters,
     image_url |-> art.image_url]

-----------------------------------------------------------------------------
(* The archive as the fetcher shows it: listing entries (<article> nodes of *)
(* a listing page) and article pages.                                       *)

\* One <article> node of a listing page:
\*   p     art_html.p: None or [span, text] (span: the <span> inside the <p>)
\*   span  art_html.span: the text of the first <span>, or None
\*   a     art_html.a: None or [href], href None when the attribute is absent
\*   time  art_html.find('time'): its text, or None
\*   em    art_html.find('em', {'class': 'author'}): its text, or None
HrefOk == <<"h","t","t","p",":","/","/","r",".","i","t","/","a","/","?","r","e","f","=","s","e","a","r","c","h">>
HrefOther == <<"h","t","t","p",":","/","/","r",".","i","t","/","b","/","?","r","e","f","=","s","e","a","r","c","h">>
HrefTen == <<"r","e","f","=","s","e","a","r","c","h">>
HrefSearch == <<"h","t","t","p",":","/","/","r",".","i","t","/","b",".","h","t","m","l","?","r","e","f","=","s","e","a","r","c","h">>
LabelCronaca == <<"R","e","p",":"," ","C","r","o","n","a","c","a">>
LabelCruciverba == <<"R","e","p",":"," ","I","l"," ","C","r","u","c","i","v","e","r","b","a">>
TextSix == <<"T","e","s","t","o","!">>
TextFive == <<"T","e","s","t","o">>
TimeText == <<"1","/","3">>

EntryOk ==
    [p |-> Some([span |-> None, text |-> TextSix]), span |-> Some(LabelCronaca),
     a |-> Some([href |-> Some(HrefOk)]), time |-> Some(TimeText),
     em |-> Some(<<"A">>)]

EntryOther == [EntryOk EXCEPT !.a = Some([href |-> Some(HrefOther)])]
EntryVideo == [EntryOk EXCEPT !.p = Some([span |-> Some(<<"T","V">>), text |-> TextSix])]
EntryCruciverba == [EntryOk EXCEPT !.span = Some(LabelCruciverba)]
EntrySearch == [EntryOk EXCEPT !.a = Some([href |-> Some(HrefSearch)])]
EntryCatalog == [EntryOk EXCEPT !.a = Some([href |-> Some(CatalogUrl)])]
EntryShortText == [EntryOk EXCEPT !.p = Some([span |-> None, text |-> TextFive])]
EntryNoP == [EntryOk EXCEPT !.p = None]
EntryNoSpan == [EntryOk EXCEPT !.span = None]
EntryNoA == [EntryOk EXCEPT !.a = None]
EntryNoHref == [EntryOk EXCEPT !.a = Some([href |-> None])]
EntryShortHref == [EntryOk EXCEPT !.a = Some([href |-> Some(HrefTen)])]
EntryEmptyHref == [EntryOk EXCEPT !.a = Some([href |-> Some(<<>>)])]
EntryNoTime == [EntryOk EXCEPT !.time = None, !.em = None]

\* every kind of entry
AllEntries ==
    {EntryOk, EntryOther, EntryVideo, EntryCruciverba, EntrySearch, EntryCatalog,
     EntryShortText, EntryNoP, EntryNoSpan, EntryNoA, EntryNoHref,
     EntryShortHref, EntryEmptyHref, EntryNoTime}


SeqsUpTo(S, n) == UNION {[1..k -> S] : k \in 0..n}

\* soup.find_all("article") of a listing page: every listing of up to
\* MaxEntries entries
AllListings == SeqsUpTo(AllEntries, MaxEntries)

\* the listings of the whole-run specification: entries that pass the
\* filter, an excluded one, and the three that lack a node the filter reads
RunListings ==
    {<<>>, <<EntryOk>>, <<EntryVideo, EntryOk>>, <<EntryOk, EntryOther>>,
     <<EntryNoP>>, <<EntryOk, EntryNoSpan>>, <<EntryNoA, EntryOk>>}

\* the listings of the client specification
ApiListings == {<<>>, <<EntryOk, EntryOther>>}

\* An article page, as the finds of parse see it
PageFull ==
    [article |-> Some([h1 |-> Some(<<"T">>)]),
     description |-> Some(<<"D">>), authors |-> Some(<<"A">>),
     time |-> Some(<<"2","/","3">>),
     articleBody |-> Some(<<"B">>), detail_body |-> None, body_text |-> None,
     section_logo |-> Some(<<"S">>), sport_logo |-> None,
     args |-> Some(<< <<"k","1">>, <<"k","2">> >>), detail_tag |-> None,
     character |-> Some(<< <<"c","1">> >>),
     figure |-> Some([img |-> Some([src |-> Some(<<"i">>)])])]

PageNoArticle == [PageFull EXCEPT !.article = None]
PageNoH1 == [PageFull EXCEPT !.article = Some([h1 |-> None])]
PageEmptyTitle == [PageFull EXCEPT !.article = Some([h1 |-> Some(<<>>)])]
PageNoBody == [PageFull EXCEPT !.articleBody = None]
PageBare ==
    [EmptySoup EXCEPT !.article = Some([h1 |-> Some(<<"U">>)]),
                      !.detail_body = Some(<<"H">>)]

AllPages == {PageFull, PageNoArticle, PageNoH1, PageEmptyTitle, PageNoBody, PageBare}
FewPages == {PageFull, PageNoArticle}

\* get_page_html(url): None (no 200 answer, or the request raised), or the
\* data: None for an empty body, else the page.  A request for '' has no
\* host, raises inside the try and yields None.
get_page_html(url, P) ==
    IF url = <<>> THEN {None}
    ELSE {None, Some(None)} \cup {Some(Some(pg)) : pg \in P}

-----------------------------------------------------------------------------
(* extractor.py: the filter of page mode *)

\* (variant: the length of the preview text is not checked)
FilterEntry_NoLength(e) ==
    IF IsNone(e.p) THEN "raise"
    ELSE IF ~IsNone(Get(e.p).span) THEN "skip"
    ELSE IF IsNone(e.span) THEN "raise"
    ELSE IF DropFirst(Get(e.span), LabelPrefixLen) = Cruciverba THEN "skip"
    ELSE IF IsNone(e.a) \/ IsNone(Get(e.a).href) THEN "raise"
    ELSE IF LastN(Get(Get(e.a).href), SearchSuffixLen) = SearchSuffix THEN "skip"
    ELSE IF Get(Get(e.a).href) = CatalogUrl THEN "skip"
    ELSE "pass"

\* The condition of the if in the page loop, evaluated left to right:
\* "raise" when a None is dereferenced (AttributeError, TypeError) or the
\* href is missing (KeyError), else "pass" or "skip"
FilterEntry(e) ==
    IF IsNone(e.p) THEN "raise"
    ELSE IF ~IsNone(Get(e.p).span) THEN "skip"
    ELSE IF IsNone(e.span) THEN "raise"
    ELSE IF DropFirst(Get(e.span), LabelPrefixLen) = Cruciverba THEN "skip"
    ELSE IF IsNone(e.a) \/ IsNone(Get(e.a).href) THEN "raise"
    ELSE IF LastN(Get(Get(e.a).href), SearchSuffixLen) = SearchSuffix THEN "skip"
    ELSE IF Get(Get(e.a).href) = CatalogUrl THEN "skip"
    ELSE IF Len(Get(e.p).text) > MinPreviewLen THEN "pass"
    ELSE "skip"

-----------------------------------------------------------------------------
(* Frames and the observation log *)
NoDate == Date(0, 0, 0)
NoDay == [date |-> NoDate, pages |-> 0, i |-> 0]
NoPage == [date |-> NoDate, page_num |-> 0, articles_html |-> <<>>, idx |-> 0]
NoArgs == [day |-> 0, month |-> 0, year |-> 0, page_num |-> None,
           day_end |-> None, month_end |-> None, year_end |-> None]
NoDayRecord ==
    [date |-> NoDate, status |-> "none", fetched |-> FALSE, pages |-> 0,
     page_nums |-> <<>>, n0 |-> 0, n1 |-> 0]
\* mode: the branch the top-level call took; days: the dates of its day-mode
\* invocations; dayrec: the latest day-mode invocation; top_pages: the
\* page-mode invocations the top-level call made itself; origin: where each
\* element of articles came from
NoLog == [mode |-> "none", days |-> <<>>, dayrec |-> NoDayRecord,
          top_pages |-> <<>>, origin |-> <<>>]
NoArgv == <<>>

ArgsDate(a) == Date(a.year, a.month, a.day)
ArgsEnd(a) == Date(Get(a.year_end), Get(a.month_end), Get(a.day_end))

\* all(v is not None for v in [day_end, month_end, year_end])
AllEndGiven(a) == ~IsNone(a.day_end) /\ ~IsNone(a.month_end) /\ ~IsNone(a.year_end)

\* (variant: the end parameters are looked at before page_num)
ModeOf_RangeFirst(a) ==
    IF AllEndGiven(a) THEN "range"
    ELSE IF ~IsNone(a.page_num) THEN "page"
    ELSE "day"

\* which branch of extract_articles the parameters select
ModeOf(a) ==
    IF ~IsNone(a.page_num) THEN "page"
    ELSE IF AllEndGiven(a) THEN "range"
    ELSE "day"

\* a day-mode invocation, as observed
DayRecord(dt, n0) ==
    [date |-> dt, status |-> "size", fetched |-> FALSE, pages |-> 0,
     page_nums |-> <<>>, n0 |-> n0, n1 |-> n0]

LastDay(l) == l.dayrec
SetLastDay(l, r) == [l EXCEPT !.dayrec = r]

\* entering page mode for (dt, n)
EnterPage(dt, n) ==
    /\ pc' = "page_fetch"
    /\ page' = [NoPage EXCEPT !.date = dt, !.page_num = n]

\* entering day mode for dt
EnterDay(dt) ==
    /\ pc' = "day_size"
    /\ day' = [NoDay EXCEPT !.date = dt]

\* The if / elif / else at the top of extract_articles, for a top-level call
Begin(a) ==
    /\ args' = a
    /\ calls' = calls + 1
    /\ exc' = "none"
    /\ article' = NoArticle
    /\ preview_soup' = None
    /\ IF ModeOf(a) = "page"
       THEN /\ pc' = "page_fetch"
            /\ page' = [NoPage EXCEPT !.date = ArgsDate(a), !.page_num = Get(a.page_num)]
            /\ day' = NoDay
            /\ current_date' = NoDate
            /\ end_date' = NoDate
            /\ log' = [NoLog EXCEPT !.mode = "page", !.origin = log.origin,
                         !.top_pages = <<[date |-> ArgsDate(a),
                                          page_num |-> Get(a.page_num)]>>]
       ELSE IF ModeOf(a) = "range"
       THEN /\ pc' = "range_loop"
            /\ current_date' = ArgsDate(a)
            /\ end_date' = ArgsEnd(a)
            /\ day' = NoDay
            /\ page' = NoPage
            /\ log' = [NoLog EXCEPT !.mode = "range", !.origin = log.origin]
       ELSE /\ pc' = "day_size"
            /\ day' = [NoDay EXCEPT !.date = ArgsDate(a)]
            /\ page' = NoPage
            /\ current_date' = NoDate
            /\ end_date' = NoDate
            /\ log' = [NoLog EXCEPT !.mode = "day", !.origin = log.origin,
                         !.days = <<ArgsDate(a)>>,
                         !.dayrec = DayRecord(ArgsDate(a), Len(articles))]

\* day mode returns: to the range loop (current_date += delta) or to the caller
ReturnDay ==
    /\ log' = SetLastDay(log, [LastDay(log) EXCEPT !.status = "returned",
                                                   !.n1 = Len(articles)])
    /\ day' = NoDay
    /\ IF ModeOf(args) = "range"
       THEN /\ pc' = "range_loop"
            /\ current_date' = AddDay(current_date)
       ELSE /\ pc' = "returned"
            /\ UNCHANGED current_date

\* page mode returns: to the page loop of day mode, or to the caller
ReturnPage ==
    /\ page' = NoPage
    /\ IF ModeOf(args) = "page"
       THEN /\ pc' = "returned"
            /\ UNCHANGED day
       ELSE /\ pc' = "day_loop"
            /\ day' = [day EXCEPT !.i = @ + 1]

\* an exception no handler catches leaves extract_articles
Propagate(name) ==
    /\ pc' = "raised"
    /\ exc' = name

-----------------------------------------------------------------------------
(* extractor.py: extract_articles and archive_size, step by step *)

\* (variant: range(1, pages))
DayLoopTest_Short(i, pages) == i < pages

\* day mode: i in range(1, pages + 1), i the next value
DayLoopTest(i, pages) == i <= pages

\* (variant: no handler, the ArticleException leaves page mode)
HandleArticleException_None ==
    /\ pc' = "raised"
    /\ exc' = "ArticleException"
    /\ UNCHANGED <<page, article, preview_soup>>

\* except ArticleException: the entry is given up, the loop goes on
HandleArticleException ==
    /\ pc' = "page_loop"
    /\ page' = [page EXCEPT !.idx = @ + 1]
    /\ article' = NoArticle
    /\ preview_soup' = None
    /\ exc' = exc

\* (variant: the record is put in front)
AppendArticle_Front(list, art) == <<art>> \o list

\* self.articles.append(article)
AppendArticle(list, art) == Append(list, art)

\* range mode: one turn of datespan's while loop
RangeNext ==
    /\ pc = "range_loop"
    /\ IF DatespanTest(current_date, end_date)
       THEN /\ EnterDay(current_date)
            /\ log' = [log EXCEPT !.days = Append(@, current_date),
                                  !.dayrec = DayRecord(current_date, Len(articles))]
            /\ UNCHANGED <<current_date, end_date>>
       ELSE /\ pc' = "returned"
            /\ current_date' = NoDate
            /\ end_date' = NoDate
            /\ UNCHANGED <<day, log>>
    /\ UNCHANGED <<caller, argv, exc, args, calls, articles, csv,
                   page, article, preview_soup, parses, first>>

\* day mode: pages = self.archive_size(day, month, year)
ArchiveSize(D) ==
    /\ pc = "day_size"
    /\ \E data \in {None} \cup {Some(d) : d \in D} :
         LET r == archive_size_of(data) IN
         IF r.raised
         THEN /\ Propagate("AttributeError")      \* or IndexError
              /\ log' = SetLastDay(log, [LastDay(log) EXCEPT !.fetched = ~IsNone(data)])
              /\ UNCHANGED day
         ELSE /\ pc' = "day_loop"
              /\ day' = [day EXCEPT !.pages = r.value, !.i = 1]
              /\ log' = SetLastDay(log, [LastDay(log) EXCEPT !.status = "loop",
                                             !.fetched = ~IsNone(data),
                                             !.pages = r.value])
              /\ UNCHANGED exc
    /\ UNCHANGED <<caller, argv, args, calls, articles, csv, current_date,
                   end_date, page, article, preview_soup, parses, first>>

\* day mode: one turn of for i in range(1, pages + 1)
DayNext ==
    /\ pc = "day_loop"
    /\ IF DayLoopTest(day.i, day.pages)
       THEN /\ EnterPage(day.date, day.i)
            /\ log' = SetLastDay(log, [LastDay(log) EXCEPT !.page_nums = Append(@, day.i)])
            /\ UNCHANGED <<current_date, day>>
       ELSE /\ ReturnDay
            /\ UNCHANGED page
    /\ UNCHANGED <<caller, argv, exc, args, calls, articles, csv, end_date,
                   article, preview_soup, parses, first>>

\* page mode: fetch the listing page and find its <article> nodes
PageFetch(L) ==
    /\ pc = "page_fetch"
    /\ \E data \in {None} \cup {Some(l) : l \in L} :
         IF IsNone(data)
         THEN ReturnPage
         ELSE /\ pc' = "page_loop"
              /\ page' = [page EXCEPT !.articles_html = Get(data), !.idx = 1]
              /\ UNCHANGED day
    /\ UNCHANGED <<caller, argv, exc, args, calls, articles, csv, current_date,
                   end_date, article, preview_soup, parses, first, log>>

\* page mode: one turn of for art_html in articles_html, up to the
\* construction of the article
PageEntry ==
    /\ pc = "page_loop"
    /\ IF page.idx > Len(page.articles_html)
       THEN /\ ReturnPage
            /\ UNCHANGED <<exc, article, preview_soup>>
       ELSE LET art_html == page.articles_html[page.idx]
                verdict == FilterEntry(art_html)
            IN  IF verdict = "raise"
                THEN /\ Propagate("AttributeError")
                     /\ UNCHANGED <<page, day, article, preview_soup>>
                ELSE IF verdict = "skip"
                THEN /\ page' = [page EXCEPT !.idx = @ + 1]
                     /\ UNCHANGED <<pc, exc, day, article, preview_soup>>
                ELSE LET r == NewArticle(Get(art_html.a).href) IN
                     IF r.raised
                     THEN /\ HandleArticleException
                          /\ UNCHANGED day
                     ELSE /\ pc' = "download"
                          /\ article' = r.art
                          /\ preview_soup' = Some(art_html)
                          /\ UNCHANGED <<page, exc, day>>
    /\ UNCHANGED <<caller, argv, args, calls, articles, csv, current_date,
                   end_date, parses, first, log>>

\* page mode: article.download(); an ArticleException ends this entry.
\* The fetcher answers with data only while fewer than limit records exist.
Download(P, limit) ==
    /\ pc = "download"
    /\ \E fetched \in get_page_html(article.url, P) :
         LET r == download(article, fetched) IN
         /\ (IsNone(fetched) \/ Len(articles) < limit)
         /\ IF r.raised
            THEN HandleArticleException
            ELSE /\ pc' = "parse"
                 /\ article' = r.art
                 /\ UNCHANGED <<page, preview_soup, exc>>
    /\ UNCHANGED <<caller, argv, args, calls, articles, csv, current_date,
                   end_date, day, parses, first, log>>

\* page mode: article.parse(art_html); self.articles.append(article)
ParseAppend ==
    /\ pc = "parse"
    /\ LET r == parse(article, preview_soup) IN
       IF r.raised
       THEN /\ HandleArticleException
            /\ UNCHANGED <<articles, log>>
       ELSE /\ articles' = AppendArticle(articles, r.art)
            /\ log' = [log EXCEPT !.origin = Append(@,
                          [call |-> calls, date |-> page.date,
                           page_num |-> page.page_num, idx |-> page.idx,
                           entry |-> Get(preview_soup)])]
            /\ pc' = "page_loop"
            /\ page' = [page EXCEPT !.idx = @ + 1]
            /\ article' = NoArticle
            /\ preview_soup' = None
            /\ exc' = exc
    /\ UNCHANGED <<caller, argv, args, calls, csv, current_date,
                   end_date, day, parses, first>>

\* articles_to_csv: one row per article, as_dict of each
articles_to_csv ==
    [k \in 1..Len(articles) |-> as_dict(articles[k])]

-----------------------------------------------------------------------------
(* run.py: run and choose_extractor; and a client that holds one extractor  *)
(* and calls extract_articles with any parameters.                          *)
Supported == "LaRepubblica"
Newspapers == {Supported, "IlFoglio"}

DateWords(dt) == <<IntToStr(dt.day), IntToStr(dt.month), IntToStr(dt.year)>>

\* sys.argv: program, filename, newspaper_name, then the numbers as words
\* of digits, the dates existing ones; 5 and 8 words are wrong arities
Argvs ==
    LET head(n) == <<"run.py", "articles.csv", n>> IN
    {head(n) \o DateWords(d) : n \in Newspapers, d \in Dates}
      \cup {head(n) \o DateWords(d) \o <<IntToStr(k)>> :
               n \in Newspapers, d \in Dates, k \in 1..MaxPages}
      \cup {head(n) \o DateWords(d) \o DateWords(e) :
               n \in Newspapers, d \in Dates, e \in Dates}
      \cup {head(n) \o SubSeq(DateWords(FirstDate), 1, 2) : n \in Newspapers}
      \cup {head(n) \o DateWords(FirstDate) \o SubSeq(DateWords(FirstDate), 1, 2) :
               n \in Newspapers}

\* choose_extractor(newspaper_name) is not None
choose_extractor(newspaper_name) == newspaper_name = Supported

\* the parameters run passes to extract_articles, by arity
RunArgs(v) ==
    LET d == StrToInt(v[4])
        m == StrToInt(v[5])
        y == StrToInt(v[6])
        base == [NoArgs EXCEPT !.day = d, !.month = m, !.year = y]
    IN  IF Len(v) = 6 THEN base
        ELSE IF Len(v) = 7 THEN [base EXCEPT !.page_num = Some(StrToInt(v[7]))]
        ELSE [base EXCEPT !.day_end = Some(StrToInt(v[7])),
                          !.month_end = Some(StrToInt(v[8])),
                          !.year_end = Some(StrToInt(v[9]))]

\* the parameters the client passes: a start date, the first or the last
\* page number or none, and the end parameters all given, given in part
\* (only day_end; all but day_end) or not given
ApiEnds ==
    LET e == AddDay(FirstDate) IN
    {[day_end |-> de, month_end |-> me, year_end |-> ye] :
        de \in {None, Some(e.day)}, me \in {None, Some(e.month)},
        ye \in {None, Some(e.year)}}

ApiArgs ==
    {[day |-> d.day, month |-> d.month, year |-> d.year, page_num |-> pn,
      day_end |-> e.day_end, month_end |-> e.month_end, year_end |-> e.year_end] :
        d \in {FirstDate, AddDay(FirstDate)},
        pn \in {None, Some(1), Some(MaxPages)},
        e \in {x \in ApiEnds : IsNone(x.month_end) = IsNone(x.year_end)}}

\* run: the arity check prints the usage text and returns
RunUsage ==
    /\ caller = "run"
    /\ pc = "start"
    /\ Len(argv) \notin {6, 7, 9}
    /\ pc' = "usage"
    /\ UNCHANGED <<caller, argv, exc, args, calls, articles, csv, current_date,
                   end_date, day, page, article, preview_soup, parses, first, log>>

\* run: an unsupported newspaper raises ExtractorException
RunUnsupported ==
    /\ caller = "run"
    /\ pc = "start"
    /\ Len(argv) \in {6, 7, 9}
    /\ ~choose_extractor(argv[3])
    /\ pc' = "raised"
    /\ exc' = "ExtractorException"
    /\ UNCHANGED <<caller, argv, args, calls, articles, csv, current_date,
                   end_date, day, page, article, preview_soup, parses, first, log>>

\* run: extractor.extract_articles(...) with the parameters of the arity
RunExtract ==
    /\ caller = "run"
    /\ pc = "start"
    /\ Len(argv) \in {6, 7, 9}
    /\ choose_extractor(argv[3])
    /\ Begin(RunArgs(argv))
    /\ UNCHANGED <<caller, argv, articles, csv, parses, first>>

\* run: extractor.articles_to_csv(filename), then the process ends
RunCsv ==
    /\ caller = "run"
    /\ pc = "returned"
    /\ csv' = Some(articles_to_csv)
    /\ pc' = "done"
    /\ UNCHANGED <<caller, argv, exc, args, calls, articles, current_date,
                   end_date, day, page, article, preview_soup, parses, first, log>>

\* the client calls extract_articles (again), also after an exception
ApiCall(A) ==
    /\ caller = "api"
    /\ pc \in {"start", "returned", "raised"}
    /\ calls < MaxCalls
    /\ \E a \in A : Begin(a)
    /\ UNCHANGED <<caller, argv, articles, csv, parses, first>>

\* the client calls articles_to_csv
ApiCsv ==
    /\ caller = "api"
    /\ pc \in {"returned", "raised"}
    /\ csv' = Some(articles_to_csv)
    /\ pc' = "done"
    /\ UNCHANGED <<caller, argv, exc, args, calls, articles, current_date,
                   end_date, day, page, article, preview_soup, parses, first, log>>

-----------------------------------------------------------------------------
(* The whole program *)
InitCommon ==
    /\ pc = "start"
    /\ exc = "none"
    /\ args = NoArgs
    /\ calls = 0
    /\ articles = <<>>
    /\ csv = None
    /\ current_date = NoDate
    /\ end_date = NoDate
    /\ day = NoDay
    /\ page = NoPage
    /\ article = NoArticle
    /\ preview_soup = None
    /\ parses = 0
    /\ first = NoArticle
    /\ log = NoLog

\* run.py, started with any of the command lines
Init ==
    /\ InitCommon
    /\ caller = "run"
    /\ argv \in Argvs

Next ==
    \/ RunUsage
    \/ RunUnsupported
    \/ RunExtract
    \/ RunCsv
    \/ RangeNext
    \/ ArchiveSize(SizeDocs)
    \/ DayNext
    \/ PageFetch(RunListings)
    \/ PageEntry
    \/ Download(FewPages, MaxArticles)
    \/ ParseAppend

Spec == Init /\ [][Next]_vars

\* A client that holds one extractor and calls it up to MaxCalls times
InitApi ==
    /\ InitCommon
    /\ caller = "api"
    /\ argv = NoArgv

NextApi ==
    \/ ApiCall(ApiArgs)
    \/ ApiCsv
    \/ RangeNext
    \/ ArchiveSize(ApiSizeDocs)
    \/ DayNext
    \/ PageFetch(ApiListings)
    \/ PageEntry
    \/ Download(FewPages, MaxArticles)
    \/ ParseAppend

SpecApi == InitApi /\ [][NextApi]_vars

\* One page-mode call on a listing page of any entries and any article pages
PageArgs ==
    {[NoArgs EXCEPT !.day = d.day, !.month = d.month, !.year = d.year,
                    !.page_num = Some(1)] : d \in {FirstDate}}

InitPage ==
    /\ InitCommon
    /\ caller = "page"
    /\ argv = NoArgv

PageCall ==
    /\ caller = "page"
    /\ pc = "start"
    /\ \E a \in PageArgs : Begin(a)
    /\ UNCHANGED <<caller, argv, articles, csv, parses, first>>

NextPage ==
    \/ PageCall
    \/ PageFetch(AllListings)
    \/ PageEntry
    \/ Download(AllPages, MaxEntries)
    \/ ParseAppend

SpecPage == InitPage /\ [][NextPage]_vars

-----------------------------------------------------------------------------
(* The article class used on its own: construct, download, parse (again) *)

\* The pages parse is applied to: every combination of the title path and
\* the keyword and character containers, and every combination of the three
\* body containers with the description and author markers
ParsePages ==
    {[PageFull EXCEPT !.article = a, !.args = k, !.detail_tag = t, !.character = c] :
        a \in {None, Some([h1 |-> None]), Some([h1 |-> Some(<<>>)]),
               Some([h1 |-> Some(<<"T">>)])},
        k \in {None, Some(<<>>), Some(<< <<"k","1">>, <<"k","2">> >>)},
        t \in {None, Some(<< <<"k","3">> >>)},
        c \in {None, Some(<< <<"c","1">> >>)}}
      \cup
    {[PageBare EXCEPT !.articleBody = b1, !.detail_body = b2, !.body_text = b3,
                      !.description = ds, !.authors = au] :
        b1 \in {None, Some(<<>>), Some(<<"B">>)},
        b2 \in {None, Some(<<>>), Some(<<"H">>)},
        b3 \in {None, Some([content |-> None]),
                Some([content |-> Some([p |-> None])]),
                Some([content |-> Some([p |-> Some(<<"N">>)])])},
        ds \in {None, Some(<<"D">>)},
        au \in {None, Some(<<"A">>)}}

\* preview_soup: '' (None) or a listing entry
ParsePreviews ==
    {None, Some(EntryOk), Some(EntryNoTime), Some(EntryNoSpan), Some(EntryNoP)}

ParseUrls == {HrefOk, HrefTen, <<>>}

InitUnit ==
    /\ InitCommon
    /\ caller = "unit"
    /\ argv = NoArgv

\* article = LaRepubblicaArticle(url), with the preview parse will be given
UnitNew ==
    /\ caller = "unit"
    /\ pc = "start"
    /\ \E url \in ParseUrls, pv \in ParsePreviews :
         LET r == NewArticle(Some(url)) IN
         /\ preview_soup' = pv
         /\ IF r.raised
            THEN /\ pc' = "raised"
                 /\ exc' = "ArticleException"
                 /\ UNCHANGED article
            ELSE /\ pc' = "new"
                 /\ article' = r.art
                 /\ UNCHANGED exc
    /\ UNCHANGED <<caller, argv, args, calls, articles, csv, current_date,
                   end_date, day, page, parses, first, log>>

\* article.download()
UnitDownload ==
    /\ caller = "unit"
    /\ pc = "new"
    /\ \E fetched \in get_page_html(article.url, ParsePages) :
         LET r == download(article, fetched) IN
         IF r.raised
         THEN /\ pc' = "raised"
              /\ exc' = "ArticleException"
              /\ UNCHANGED article
         ELSE /\ pc' = "loaded"
              /\ article' = r.art
              /\ UNCHANGED exc
    /\ UNCHANGED <<caller, argv, args, calls, articles, csv, current_date,
                   end_date, day, page, preview_soup, parses, first, log>>

\* article.parse(preview_soup), a first time or again
UnitParse ==
    /\ caller = "unit"
    /\ pc \in {"loaded", "parsed"}
    /\ parses < MaxParses
    /\ LET r == parse(article, preview_soup) IN
       /\ article' = r.art
       /\ exc' = IF r.raised THEN "ArticleException" ELSE "none"
       /\ first' = IF parses = 0 THEN r.art ELSE first
    /\ parses' = parses + 1
    /\ pc' = "parsed"
    /\ UNCHANGED <<caller, argv, args, calls, articles, csv, current_date,
                   end_date, day, page, preview_soup, log>>

NextUnit ==
    \/ UnitNew
    \/ UnitDownload
    \/ UnitParse

SpecUnit == InitUnit /\ [][NextUnit]_vars

-----------------------------------------------------------------------------
(* Properties *)

Href(e) == Get(Get(e.a).href)
TopStart == ArgsDate(args)
Ended == pc \in {"returned", "done"}

\* C1 (as the specification states it): every record of the accumulated
\* articles list has a non-empty url and a non-empty title.
C1_MandatoryFields ==
    \A k \in 1..Len(articles) :
        articles[k].url # <<>> /\ articles[k].title # <<>>

\* C2 (as the specification states it): after parse ran twice or more on the
\* same article with the same page and preview, every field, keywords and
\* characters included, has the value it had after the first run.
C2_ParseIdempotent ==
    (caller = "unit" /\ parses >= 2) => article = first

C5_EndDateExtracted ==
    (log.mode = "range" /\ Ended /\ DateLE(TopStart, ArgsEnd(args))) =>
        \E k \in 1..Len(log.days) : log.days[k] = ArgsEnd(args)

\* The five exclusion checks, read off a listing entry
PassesChecks(e) ==
    /\ ~IsNone(e.p)
    /\ IsNone(Get(e.p).span)
    /\ ~IsNone(e.span)
    /\ DropFirst(Get(e.span), 5) # Cruciverba
    /\ ~IsNone(e.a)
    /\ ~IsNone(Get(e.a).href)
    /\ LastN(Href(e), 16) # SearchSuffix
    /\ Href(e) # CatalogUrl
    /\ Len(Get(e.p).text) > 5

\* C6: every record of the accumulated list was built from a listing entry
\* that passes all five exclusion checks: its preview text is longer than 5,
\* its link does not end with '.html?ref=search' and is not the catalog URL.
C6_Exclusion ==
    /\ Len(log.origin) = Len(articles)
    /\ \A k \in 1..Len(articles) :
          LET e == log.origin[k].entry IN
          /\ PassesChecks(e)
          /\ Len(Get(e.p).text) > 5
          /\ LastN(Href(e), 16) # SearchSuffix
          /\ Href(e) # CatalogUrl
          /\ articles[k].url = DropLast(Href(e), 10)

\* a listing whose first entry is excluded and whose second gave a record
C6_Witness ==
    /\ pc = "page_loop"
    /\ Len(page.articles_html) = 2
    /\ ~PassesChecks(page.articles_html[1])
    /\ Len(articles) = 1
    /\ log.origin[1].idx = 2

\* one step of the download or the extraction of an article
ArticleStep ==
    pc \in {"download", "parse"} =>
          /\ exc' = exc
          /\ pc' \in {"parse", "page_loop"}
          /\ pc' = "page_loop" =>
                /\ page'.idx = page.idx + 1
                /\ page'.articles_html = page.articles_html
                /\ page'.page_num = page.page_num
          /\ (pc = "download" /\ pc' = "page_loop") => articles' = articles
          /\ (pc = "parse" /\ (IsNone(SoupOf(article.html).article)
                               \/ IsNone(Get(SoupOf(article.html).article).h1)))
                => articles' = articles
          /\ Len(articles') <= Len(articles) + 1
          /\ IsPrefix(articles, articles')

\* C7: in page mode, a step of the download or the extraction of one article
\* either succeeds or leaves the list of records and the exception state as
\* they are and moves on to the next entry of the same listing; a failed
\* fetch (no markup stored) and a page without a title element add no record.
C7_Containment == [][ArticleStep]_vars

\* the second entry gave a record after the first, which passes the filter,
\* gave none
C7_Witness ==
    /\ pc = "page_loop"
    /\ Len(page.articles_html) = 2
    /\ FilterEntry(page.articles_html[1]) = "pass"
    /\ Len(articles) = 1
    /\ log.origin[1].idx = 2

\* C8 (as the specification states it): a run with a valid command line and
\* a supported newspaper is not ended by an exception, except one that
\* archive_size raises on the pagination markup.
C8_RunPersists ==
    (caller = "run" /\ pc = "raised") =>
        \/ exc = "ExtractorException"
        \/ log.dayrec.status = "size"

\* the records are in the order (call, date within the call, page, entry)
OriginOrdered ==
    \A i, j \in 1..Len(log.origin) :
        i < j =>
            LET a == log.origin[i]
                b == log.origin[j]
            IN  \/ a.call < b.call
                \/ a.call = b.call /\ DateLT(a.date, b.date)
                \/ a.call = b.call /\ a.date = b.date /\ a.page_num < b.page_num
                \/ a.call = b.call /\ a.date = b.date /\ a.page_num = b.page_num
                     /\ a.idx < b.idx

\* one step: the list only grows at its end, each record where its entry was
AppendStep ==
    /\ IsPrefix(articles, articles')
    /\ Len(log.origin') = Len(articles')
    /\ OriginOrdered'
    /\ \A k \in 1..Len(articles') :
          articles'[k].url = DropLast(Href(log.origin'[k].entry), 10)

\* C9: the records of the entries of one listing page are in listing order,
\* and every step leaves the earlier list a prefix of the later one.
C9_AppendOnly == [][AppendStep]_vars

\* two records of one listing page of the first call, kept while a later
\* call runs
C9_Witness ==
    /\ Len(articles) = 2
    /\ log.origin[1].call = 1
    /\ log.origin[2].call = 1
    /\ log.origin[1].page_num = log.origin[2].page_num
    /\ log.origin[1].date = log.origin[2].date
    /\ log.origin[1].idx < log.origin[2].idx
    /\ calls = 2
    /\ pc = "page_loop"

\* C10: with page_num given only page mode runs, for that page, whatever the
\* end parameters; without it, range mode runs when all three end parameters
\* are given, and day mode for the start date otherwise.
C10_ModePrecedence ==
    calls > 0 =>
        /\ ~IsNone(args.page_num) =>
              /\ log.mode = "page"
              /\ log.days = <<>>
              /\ log.top_pages = <<[date |-> TopStart, page_num |-> Get(args.page_num)]>>
              /\ pc \notin {"range_loop", "day_size", "day_loop"}
        /\ (IsNone(args.page_num) /\ ~IsNone(args.day_end)
              /\ ~IsNone(args.month_end) /\ ~IsNone(args.year_end)) =>
              /\ log.mode = "range"
              /\ log.top_pages = <<>>
              /\ \A k \in 1..Len(log.days) : DateLT(log.days[k], ArgsEnd(args))
        /\ (IsNone(args.page_num) /\ (IsNone(args.day_end)
              \/ IsNone(args.month_end) \/ IsNone(args.year_end))) =>
              /\ log.mode = "day"
              /\ log.top_pages = <<>>
              /\ log.days = <<TopStart>>
              /\ pc # "range_loop"

\* page_num and all three end parameters given, and the listing was fetched
C10_Witness ==
    /\ ~IsNone(args.page_num)
    /\ AllEndGiven(args)
    /\ pc = "page_loop"

-----------------------------------------------------------------------------
(* Optional fields of parse: absence, the preview fallback, the body chain  *)

\* the page under parse has the title path soup.article.h1
HasTitle(soup) ==
    /\ ~IsNone(soup.article)
    /\ ~IsNone(Get(soup.article).h1)

\* none of the three body strategies finds a node with text
NoBodyMarker(soup) ==
    /\ IsNone(soup.articleBody)
    /\ IsNone(soup.detail_body)
    /\ \/ IsNone(soup.body_text)
       \/ IsNone(Get(soup.body_text).content)
       \/ IsNone(Get(Get(soup.body_text).content).p)

\* one step: a parse of a page that has its title appends a record, and a
\* field whose markers are all missing is left at its default in that record
OptionalStep ==
    (pc = "parse" /\ HasTitle(SoupOf(article.html))) =>
        /\ Len(articles') = Len(articles) + 1
        /\ NoBodyMarker(SoupOf(article.html)) =>
              articles'[Len(articles')].text = <<>>
        /\ IsNone(Get(preview_soup).time) =>
              articles'[Len(articles')].publish_date = <<>>

\* C11: the absence of every marker of a field other than title is no error:
\* the parse of a page with a title succeeds, the field keeps its default and
\* the record is appended to the result list.
C11_OptionalAbsence == [][OptionalStep]_vars

\* C12: after a parse that succeeded with a preview node, a page without the
\* description marker leaves description equal to the text of the preview's
\* paragraph, and a page without the author marker leaves authors equal to
\* the text of the preview's author-classed marker.
C12_PreviewFallback ==
    (caller = "unit" /\ pc = "parsed" /\ exc = "none" /\ ~IsNone(preview_soup)) =>
        LET soup == SoupOf(article.html)
            pv   == Get(preview_soup)
        IN  /\ (IsNone(soup.description) /\ ~IsNone(pv.p)) =>
                  article.description = Get(pv.p).text
            /\ (IsNone(soup.authors) /\ ~IsNone(pv.em)) =>
                  article.authors = Get(pv.em)

\* the texts of the body containers a page has, in the order article-body
\* marker, detail-body container, nested content container
ContainerTexts(soup) ==
    (IF IsNone(soup.articleBody) THEN <<>> ELSE <<Get(soup.articleBody)>>)
      \o (IF IsNone(soup.detail_body) THEN <<>> ELSE <<Get(soup.detail_body)>>)
      \o (IF \/ IsNone(soup.body_text)
             \/ IsNone(Get(soup.body_text).content)
             \/ IsNone(Get(Get(soup.body_text).content).p)
          THEN <<>>
          ELSE <<Get(Get(Get(soup.body_text).content).p)>>)

\* the first text of a sequence of texts that is not empty, '' when none is
FirstNonEmpty(texts) ==
    IF \A k \in 1..Len(texts) : texts[k] = <<>>
    THEN <<>>
    ELSE texts[CHOOSE k \in 1..Len(texts) :
                  /\ texts[k] # <<>>
                  /\ \A j \in 1..(k - 1) : texts[j] = <<>>]

\* C13: after a parse that succeeded, text is the text of the first of the
\* three containers (article-body marker, detail-body container, nested
\* content container) whose text is not empty; an empty container does not
\* stop the chain, and a detail-body text T without an article-body marker
\* gives text = T.
C13_BodyTextChain ==
    (caller = "unit" /\ pc = "parsed" /\ exc = "none") =>
        article.text = FirstNonEmpty(ContainerTexts(SoupOf(article.html)))
====
